---- MODULE Spec2Model ----
(***************************************************************************)
(* A model of the Cortex tensor runtime (runtime/src/cortex.c).            *)
(*                                                                         *)
(* The machine state is the C heap (tensor headers, shape arrays and data  *)
(* buffers, each its own allocation) and the process-wide error slot       *)
(* g_error_message.  Every entry point of cortex.c is an operator from a   *)
(* machine state to a machine state plus a return value, composed the way  *)
(* the C functions call each other (add -> copy -> create -> malloc), and   *)
(* one action of the model.                                                *)
(*                                                                         *)
(* A behaviour is one client scenario: the client holds up to two tensors  *)
(* it built earlier (Init draws them, and the error slot left by earlier   *)
(* calls, from bounded sets), makes one engine call or one short chain of  *)
(* calls, and then may write into a copy it received, release the returned *)
(* tensor, or clear the error slot.                                        *)
(***************************************************************************)
EXTENDS Integers, Sequences, FiniteSets, TLC

(***************************************************************************)
(* Bounds of the model.                                                    *)
(***************************************************************************)
\* Largest extent of an axis of a tensor the client builds or asks for.
MaxExtent == 2
\* Number of blocks the modelled heap can hold at once.
HeapBlocks == 15
\* Number of stores the client makes into a copy it received.
MaxWrites == 2

(***************************************************************************)
(* cortex_float_t (double).  A value is a pair <<n, d>>:                   *)
(*   d > 0   the rational n/d in lowest terms (the doubles the model       *)
(*           tracks exactly; -0.0 is not told apart from 0.0)              *)
(*   d = 0   n = 1: +Inf, n = -1: -Inf, n = 0: NaN                         *)
(*   d = -1  a double whose value the model does not track (the result of  *)
(*           exp, log, sqrt, tanh or rand() that is not one of the above)  *)
(***************************************************************************)
Abs(x) == IF x < 0 THEN -x ELSE x

Sgn(x) == IF x < 0 THEN -1 ELSE IF x > 0 THEN 1 ELSE 0

RECURSIVE GCD(_, _)
GCD(a, b) == IF b = 0 THEN a ELSE GCD(b, a % b)

Rat(n, d) ==
  LET g == GCD(Abs(n), Abs(d)) IN
  IF d = 0 THEN <<Sgn(n), 0>>
  ELSE IF n = 0 THEN <<0, 1>>
  ELSE <<(Sgn(d) * n) \div g, Abs(d) \div g>>

Q(n) == <<n, 1>>

NaN == <<0, 0>>

PosInf == <<1, 0>>

NegInf == <<-1, 0>>

Untracked == <<0, -1>>

IsNaN(x) == x = NaN

IsInf(x) == x[2] = 0 /\ x[1] # 0

IsUntracked(x) == x[2] = -1

IsExact(x) == x[2] > 0

IsZero(x) == x[2] > 0 /\ x[1] = 0

\* unary minus
FNeg(x) == IF x[2] = -1 THEN x ELSE <<-x[1], x[2]>>

\* x + y
FAdd(x, y) ==
  IF IsNaN(x) \/ IsNaN(y) THEN NaN
  ELSE IF IsUntracked(x) \/ IsUntracked(y) THEN Untracked
  ELSE IF IsInf(x) THEN (IF IsInf(y) /\ y # x THEN NaN ELSE x)
  ELSE IF IsInf(y) THEN y
  ELSE Rat(x[1] * y[2] + y[1] * x[2], x[2] * y[2])

\* x - y
FSub(x, y) == FAdd(x, FNeg(y))

\* x * y
FMul(x, y) ==
  IF IsNaN(x) \/ IsNaN(y) THEN NaN
  ELSE IF IsUntracked(x) \/ IsUntracked(y) THEN Untracked
  ELSE IF IsInf(x) \/ IsInf(y)
    THEN (IF IsZero(x) \/ IsZero(y) THEN NaN ELSE <<Sgn(x[1]) * Sgn(y[1]), 0>>)
  ELSE Rat(x[1] * y[1], x[2] * y[2])

\* x / y
FDiv(x, y) ==
  IF IsNaN(x) \/ IsNaN(y) THEN NaN
  ELSE IF IsUntracked(x) \/ IsUntracked(y) THEN Untracked
  ELSE IF IsInf(x)
    THEN (IF IsInf(y) THEN NaN ELSE <<x[1] * (IF y[1] < 0 THEN -1 ELSE 1), 0>>)
  ELSE IF IsInf(y) THEN Q(0)
  ELSE IF IsZero(y) THEN <<Sgn(x[1]), 0>>
  ELSE Rat(x[1] * y[2], x[2] * y[1])

\* x < y (false when either is NaN); the model compares tracked values only
FLess(x, y) ==
  /\ ~IsNaN(x)
  /\ ~IsNaN(y)
  /\ x # y
  /\ IF IsInf(x) THEN x[1] < 0
     ELSE IF IsInf(y) THEN y[1] > 0
     ELSE IF x[2] = y[2] THEN x[1] < y[1]
     ELSE x[1] * y[2] < y[1] * x[2]

\* x <= y
FLe(x, y) == FLess(x, y) \/ (~IsNaN(x) /\ x = y)

\* x == y
FEq(x, y) == ~IsNaN(x) /\ x = y

IsSquare(n) == n >= 0 /\ \E k \in 0..n : k * k = n

ISqrt(n) == CHOOSE k \in 0..n : k * k = n

RECURSIVE IPow(_, _)
IPow(b, e) == IF e = 0 THEN 1 ELSE b * IPow(b, e - 1)

\* exp(x)
FExp(x) ==
  IF IsNaN(x) THEN NaN
  ELSE IF x = PosInf THEN PosInf
  ELSE IF x = NegInf THEN Q(0)
  ELSE IF IsZero(x) THEN Q(1)
  ELSE Untracked

\* log(x)
FLog(x) ==
  IF IsNaN(x) THEN NaN
  ELSE IF IsUntracked(x) THEN Untracked
  ELSE IF x[1] < 0 THEN NaN
  ELSE IF IsZero(x) THEN NegInf
  ELSE IF x = PosInf THEN PosInf
  ELSE IF x = Q(1) THEN Q(0)
  ELSE Untracked

\* sqrt(x)
FSqrt(x) ==
  IF IsNaN(x) THEN NaN
  ELSE IF IsUntracked(x) THEN Untracked
  ELSE IF x[1] < 0 THEN NaN
  ELSE IF x = PosInf THEN PosInf
  ELSE IF IsSquare(x[1]) /\ IsSquare(x[2]) THEN Rat(ISqrt(x[1]), ISqrt(x[2]))
  ELSE Untracked

\* tanh(x)
FTanh(x) ==
  IF IsNaN(x) THEN NaN
  ELSE IF IsInf(x) THEN Q(x[1])
  ELSE IF IsZero(x) THEN Q(0)
  ELSE Untracked

\* pow(x, y), C99 Annex F for the tracked values
FPow(x, y) ==
  IF IsZero(y) \/ x = Q(1) THEN Q(1)
  ELSE IF IsNaN(x) \/ IsNaN(y) THEN NaN
  ELSE IF IsUntracked(x) \/ IsUntracked(y) \/ IsInf(x) \/ IsInf(y) THEN Untracked
  ELSE IF y[2] = 1
    THEN (IF y[1] > 0 THEN Rat(IPow(x[1], y[1]), IPow(x[2], y[1]))
          ELSE IF IsZero(x) THEN PosInf
          ELSE Rat(IPow(x[2], -y[1]), IPow(x[1], -y[1])))
  ELSE IF x[1] < 0 THEN NaN
  ELSE IF IsZero(x) THEN (IF y[1] > 0 THEN Q(0) ELSE PosInf)
  ELSE Untracked

\* fmax(x, y): a NaN argument is treated as missing
FMax(x, y) ==
  IF IsNaN(x) THEN y
  ELSE IF IsNaN(y) THEN x
  ELSE IF IsUntracked(x) \/ IsUntracked(y) THEN Untracked
  ELSE IF FLess(x, y) THEN y ELSE x

\* fmin(x, y)
FMin(x, y) ==
  IF IsNaN(x) THEN y
  ELSE IF IsNaN(y) THEN x
  ELSE IF IsUntracked(x) \/ IsUntracked(y) THEN Untracked
  ELSE IF FLess(y, x) THEN y ELSE x

(***************************************************************************)
(* The heap.  Every malloc/calloc result is one block; a block is a tensor *)
(* header (cortex_tensor_t), a shape array (int64_t[]) or a data buffer    *)
(* (cortex_float_t[]).  Address 0 is NULL.  calloc(0, n) returns a block   *)
(* of no elements, as the C library this runtime is built against does.    *)
(***************************************************************************)
NULL == 0

Addr == 1..HeapBlocks

\* g_error_message == NULL
NoMessage == "(null)"

FreeBlock ==
  [kind |-> "free", data |-> NULL, shape |-> NULL, ndim |-> 0, size |-> 0,
   requires_grad |-> FALSE, words |-> <<>>, elems |-> <<>>]

FreeAddrs(m) == {x \in Addr : m[x].kind = "free"}

FirstFree(m) == CHOOSE x \in FreeAddrs(m) : \A y \in FreeAddrs(m) : x <= y

\* free(x)
Dealloc(m, x) == [m EXCEPT ![x] = FreeBlock]

\* size = 1; for (i = 0; i < ndim; i++) size *= shape[i];
\* the extents of this model keep the product far below 2^63, where int64_t
\* arithmetic and the integers agree
RECURSIVE Product(_)
Product(s) == IF s = <<>> THEN 1 ELSE Head(s) * Product(Tail(s))

\* a faulty variant: the buffer comes from malloc and holds what was there
Unfilled(n) == [i \in 1..n |-> Untracked]

\* calloc's buffer of n elements
ZeroFill(n) == [i \in 1..n |-> Q(0)]

\* memcpy(dst, src, n * sizeof(element))
Memcpy(dst, src, n) == [i \in 1..Len(dst) |-> IF i <= n THEN src[i] ELSE dst[i]]

\* the machine state an entry point returns with
St(r) == [mem |-> r.mem, err |-> r.err]

\* accessors: tensor->shape[..], tensor->data[..]
ShapeOf(m, t) == m[m[t].shape].words

DataOf(m, t) == m[m[t].data].elems

(***************************************************************************)
(* Error channel.                                                          *)
(***************************************************************************)
\* a faulty variant: a message already in the slot is kept
set_error_first_wins(S, message) ==
  [mem |-> S.mem, err |-> IF S.err = NoMessage THEN message ELSE S.err]

\* free(g_error_message); g_error_message = strdup(message);
\* strdup is taken to obtain its few bytes
cortex_set_error(S, message) == [mem |-> S.mem, err |-> message]

cortex_get_error(S) == S.err

cortex_clear_error(S) == [mem |-> S.mem, err |-> NoMessage]

(***************************************************************************)
(* Allocation.  `fails` is the allocator's answer: TRUE when it cannot     *)
(* obtain the memory.                                                      *)
(***************************************************************************)
cortex_malloc(S, kind, fails) ==
  IF fails
    THEN [mem |-> S.mem, err |-> cortex_set_error(S, "Memory allocation failed").err,
          ret |-> NULL]
    ELSE LET x == FirstFree(S.mem) IN
         [mem |-> [S.mem EXCEPT ![x] = [FreeBlock EXCEPT !.kind = kind]],
          err |-> S.err, ret |-> x]

\* count < 0 is a size_t too large for any allocator: calloc returns NULL
cortex_calloc(S, count, fails) ==
  IF fails \/ count < 0
    THEN [mem |-> S.mem, err |-> cortex_set_error(S, "Memory allocation failed").err,
          ret |-> NULL]
    ELSE LET x == FirstFree(S.mem) IN
         [mem |-> [S.mem EXCEPT ![x] = [FreeBlock EXCEPT !.kind = "data",
                                                          !.elems = ZeroFill(count)]],
          err |-> S.err, ret |-> x]

(***************************************************************************)
(* Memory management.  An entry point that returns a tensor yields         *)
(* [mem, err, ret, af, oob, allocs]: ret the tensor (NULL on failure), af  *)
(* the allocation of the call that failed (0: none, 1: header, 2: shape,   *)
(* 3: data), oob whether the call read or wrote outside a buffer, allocs   *)
(* the number of blocks the call obtained from the allocator.              *)
(* A shape argument is [null, shape, ndim]: the pointer's nullness, the    *)
(* array behind it, and the ndim passed.  oom is the allocation the        *)
(* allocator refuses in this call (0: none).                               *)
(*                                                                         *)
(* A C function is one operator, followed where it goes on after a call    *)
(* by operators for the rest of its body, which take what the call         *)
(* returned.                                                               *)
(***************************************************************************)
Failed(S, message) ==
  [mem |-> S.mem, err |-> cortex_set_error(S, message).err, ret |-> NULL,
   af |-> 0, oob |-> FALSE, allocs |-> 0]

\* the allocation failed: what was allocated before it is freed
AllocFailed(m, err, af) ==
  [mem |-> m, err |-> err, ret |-> NULL, af |-> af, oob |-> FALSE,
   allocs |-> af - 1]

\* ... after calloc: the header is filled in
create_finish(arg, tensor, shape, size, data) ==
  IF data.ret = NULL
    THEN AllocFailed(Dealloc(Dealloc(data.mem, shape), tensor), data.err, 3)
    ELSE [mem |-> [data.mem EXCEPT
                     ![shape].words = SubSeq(arg.shape, 1, arg.ndim),
                     ![tensor].data = data.ret,
                     ![tensor].shape = shape,
                     ![tensor].ndim = arg.ndim,
                     ![tensor].size = size,
                     ![tensor].requires_grad = FALSE],
          err |-> data.err, ret |-> tensor, af |-> 0, oob |-> FALSE,
          allocs |-> 3]

\* ... after the shape's malloc: memcpy of the shape, size, calloc of the data
create_data(arg, oom, tensor, shape) ==
  IF shape.ret = NULL
    THEN AllocFailed(Dealloc(shape.mem, tensor), shape.err, 2)
    ELSE create_finish(arg, tensor, shape.ret, Product(SubSeq(arg.shape, 1, arg.ndim)),
                       cortex_calloc(St(shape), Product(SubSeq(arg.shape, 1, arg.ndim)),
                                     oom = 3))

\* ... after the header's malloc: malloc of the shape
create_shape(arg, oom, tensor) ==
  IF tensor.ret = NULL
    THEN AllocFailed(tensor.mem, tensor.err, 1)
    ELSE create_data(arg, oom, tensor.ret, cortex_malloc(St(tensor), "shape", oom = 2))

cortex_tensor_create(S, arg, oom) ==
  IF arg.null \/ arg.ndim <= 0 THEN Failed(S, "Invalid tensor shape")
  ELSE create_shape(arg, oom, cortex_malloc(S, "tensor", oom = 1))

\* if (tensor->data) free(tensor->data); if (tensor->shape) free(tensor->shape);
FreeFields(m, tensor) ==
  [x \in Addr |->
     IF (x = m[tensor].data /\ m[tensor].data # NULL)
        \/ (x = m[tensor].shape /\ m[tensor].shape # NULL)
       THEN FreeBlock ELSE m[x]]

\* a faulty variant: the shape array is not freed
free_keeps_shape(S, tensor) ==
  IF tensor = NULL THEN S
  ELSE [mem |-> Dealloc(Dealloc(S.mem, S.mem[tensor].data), tensor), err |-> S.err]

cortex_tensor_free(S, tensor) ==
  IF tensor = NULL THEN S
  ELSE [mem |-> Dealloc(FreeFields(S.mem, tensor), tensor), err |-> S.err]

\* the returned tensor's buffer replaced by elems
WithData(r, elems) ==
  [r EXCEPT !.mem = [r.mem EXCEPT ![r.mem[r.ret].data].elems = elems]]

\* a faulty variant: the copy's header points at the source's buffer
copy_shares_data(S, tensor, copy) ==
  IF copy.ret = NULL THEN copy
  ELSE [copy EXCEPT
          !.mem = [Dealloc(copy.mem, copy.mem[copy.ret].data) EXCEPT
                     ![copy.ret].data = S.mem[tensor].data,
                     ![copy.ret].requires_grad = S.mem[tensor].requires_grad]]

\* ... after create: memcpy of the data, requires_grad
copy_data(S, tensor, copy) ==
  IF copy.ret = NULL THEN copy
  ELSE [copy EXCEPT
          !.mem = [copy.mem EXCEPT
                     ![copy.mem[copy.ret].data].elems =
                        Memcpy(@, DataOf(S.mem, tensor), S.mem[tensor].size),
                     ![copy.ret].requires_grad = S.mem[tensor].requires_grad]]

cortex_tensor_copy(S, tensor, oom) ==
  IF tensor = NULL THEN Failed(S, "Cannot copy NULL tensor")
  ELSE copy_data(S, tensor,
         cortex_tensor_create(S, [null |-> FALSE, shape |-> ShapeOf(S.mem, tensor),
                                  ndim |-> S.mem[tensor].ndim], oom))

\* the buffer of the tensor a call is filling
Buf(r) == r.mem[r.mem[r.ret].data].elems

\* a faulty variant: only the header is freed
discard_header(result, message) ==
  [mem |-> Dealloc(result.mem, result.ret),
   err |-> cortex_set_error(St(result), message).err, ret |-> NULL, af |-> 0,
   oob |-> FALSE, allocs |-> result.allocs]

\* the early return of a loop: the tensor is released, the message recorded
Discard(result, message) ==
  [mem |-> cortex_tensor_free(cortex_set_error(St(result), message), result.ret).mem,
   err |-> cortex_set_error(St(result), message).err, ret |-> NULL, af |-> 0,
   oob |-> FALSE, allocs |-> result.allocs]

(***************************************************************************)
(* Tensor creation functions.                                              *)
(***************************************************************************)
cortex_zeros(S, arg, oom) == cortex_tensor_create(S, arg, oom)

\* for (i = 0; i < tensor->size; i++) tensor->data[i] = 1.0;
ones_fill(tensor) ==
  IF tensor.ret = NULL THEN tensor
  ELSE WithData(tensor,
         [i \in 1..Len(Buf(tensor)) |->
            IF i <= tensor.mem[tensor.ret].size THEN Q(1) ELSE Buf(tensor)[i]])

cortex_ones(S, arg, oom) == ones_fill(cortex_tensor_create(S, arg, oom))

\* sqrt(-2 log(u1)) * cos(2 pi u2) of two rand() draws is a double the model
\* does not track
randn_fill(tensor) ==
  IF tensor.ret = NULL THEN tensor
  ELSE WithData(tensor,
         [i \in 1..Len(Buf(tensor)) |->
            IF i <= tensor.mem[tensor.ret].size THEN Untracked ELSE Buf(tensor)[i]])

cortex_randn(S, arg, oom) == randn_fill(cortex_tensor_create(S, arg, oom))

\* for (i = 0; i < size; i++) tensor->data[i * size + i] = 1.0;
eye_fill(size, tensor) ==
  IF tensor.ret = NULL THEN tensor
  ELSE WithData(tensor,
         [p \in 1..Len(Buf(tensor)) |->
            IF \E i \in 0..(size - 1) : i * size + i + 1 = p
              THEN Q(1) ELSE Buf(tensor)[p]])

cortex_eye(S, size, oom) ==
  eye_fill(size, cortex_tensor_create(
                   S, [null |-> FALSE, shape |-> <<size, size>>, ndim |-> 2], oom))

\* (int64_t)x for a tracked finite x: truncation toward zero
Trunc(x) == Sgn(x[1]) * (Abs(x[1]) \div x[2])

\* for (i = 0; i < size; i++) tensor->data[i] = start + i * step;
arange_fill(start, step, size, tensor) ==
  IF tensor.ret = NULL THEN tensor
  ELSE WithData(tensor,
         [p \in 1..Len(Buf(tensor)) |->
            IF p <= size THEN FAdd(start, FMul(Q(p - 1), step)) ELSE Buf(tensor)[p]])

\* the client keeps step non-zero
cortex_arange(S, start, stop, step, oom) ==
  arange_fill(start, step, Trunc(FDiv(FSub(stop, start), step)),
    cortex_tensor_create(
      S, [null |-> FALSE, shape |-> <<Trunc(FDiv(FSub(stop, start), step))>>,
          ndim |-> 1], oom))

(***************************************************************************)
(* Basic tensor operations.                                                *)
(***************************************************************************)
\* for (i = 0; i < result->size; i++) result->data[i] += b->data[i];
add_loop(S, b, result) ==
  IF result.ret = NULL THEN result
  ELSE WithData(result,
         [i \in 1..Len(Buf(result)) |->
            IF i <= result.mem[result.ret].size
              THEN FAdd(Buf(result)[i], DataOf(S.mem, b)[i])
              ELSE Buf(result)[i]])

\* a faulty variant: the operands' shapes are compared, not their sizes
add_same_shape(S, a, b, oom) ==
  IF a = NULL \/ b = NULL THEN Failed(S, "Cannot add NULL tensors")
  ELSE IF ShapeOf(S.mem, a) # ShapeOf(S.mem, b)
    THEN Failed(S, "Tensor size mismatch for addition")
  ELSE add_loop(S, b, cortex_tensor_copy(S, a, oom))

cortex_tensor_add(S, a, b, oom) ==
  IF a = NULL \/ b = NULL THEN Failed(S, "Cannot add NULL tensors")
  ELSE IF S.mem[a].size # S.mem[b].size THEN Failed(S, "Tensor size mismatch for addition")
  ELSE add_loop(S, b, cortex_tensor_copy(S, a, oom))

\* for (i = 0; i < result->size; i++) result->data[i] -= b->data[i];
subtract_loop(S, b, result) ==
  IF result.ret = NULL THEN result
  ELSE WithData(result,
         [i \in 1..Len(Buf(result)) |->
            IF i <= result.mem[result.ret].size
              THEN FSub(Buf(result)[i], DataOf(S.mem, b)[i])
              ELSE Buf(result)[i]])

cortex_tensor_subtract(S, a, b, oom) ==
  IF a = NULL \/ b = NULL THEN Failed(S, "Cannot subtract NULL tensors")
  ELSE IF S.mem[a].size # S.mem[b].size THEN Failed(S, "Tensor size mismatch for subtraction")
  ELSE subtract_loop(S, b, cortex_tensor_copy(S, a, oom))

\* for (i = 0; i < result->size; i++) result->data[i] *= b->data[i];
multiply_loop(S, b, result) ==
  IF result.ret = NULL THEN result
  ELSE WithData(result,
         [i \in 1..Len(Buf(result)) |->
            IF i <= result.mem[result.ret].size
              THEN FMul(Buf(result)[i], DataOf(S.mem, b)[i])
              ELSE Buf(result)[i]])

cortex_tensor_multiply(S, a, b, oom) ==
  IF a = NULL \/ b = NULL THEN Failed(S, "Cannot multiply NULL tensors")
  ELSE IF S.mem[a].size # S.mem[b].size THEN Failed(S, "Tensor size mismatch for multiplication")
  ELSE multiply_loop(S, b, cortex_tensor_copy(S, a, oom))

\* a faulty variant: the divisor is not tested
divide_unchecked(S, b, result) ==
  IF result.ret = NULL THEN result
  ELSE WithData(result,
         [i \in 1..Len(Buf(result)) |->
            IF i <= result.mem[result.ret].size
              THEN FDiv(Buf(result)[i], DataOf(S.mem, b)[i])
              ELSE Buf(result)[i]])

\* for (i = 0; i < result->size; i++) { if (b->data[i] == 0.0) fail; result->data[i] /= b->data[i]; }
divide_loop(S, b, result) ==
  IF result.ret = NULL THEN result
  ELSE IF \E i \in 1..result.mem[result.ret].size : FEq(DataOf(S.mem, b)[i], Q(0))
    THEN Discard(result, "Division by zero")
  ELSE WithData(result,
         [i \in 1..Len(Buf(result)) |->
            IF i <= result.mem[result.ret].size
              THEN FDiv(Buf(result)[i], DataOf(S.mem, b)[i])
              ELSE Buf(result)[i]])

cortex_tensor_divide(S, a, b, oom) ==
  IF a = NULL \/ b = NULL THEN Failed(S, "Cannot divide NULL tensors")
  ELSE IF S.mem[a].size # S.mem[b].size THEN Failed(S, "Tensor size mismatch for division")
  ELSE divide_loop(S, b, cortex_tensor_copy(S, a, oom))

\* for (i = 0; i < result->size; i++) result->data[i] = pow(result->data[i], b->data[i]);
power_loop(S, b, result) ==
  IF result.ret = NULL THEN result
  ELSE WithData(result,
         [i \in 1..Len(Buf(result)) |->
            IF i <= result.mem[result.ret].size
              THEN FPow(Buf(result)[i], DataOf(S.mem, b)[i])
              ELSE Buf(result)[i]])

cortex_tensor_power(S, a, b, oom) ==
  IF a = NULL \/ b = NULL THEN Failed(S, "Cannot raise NULL tensors to power")
  ELSE IF S.mem[a].size # S.mem[b].size THEN Failed(S, "Tensor size mismatch for power operation")
  ELSE power_loop(S, b, cortex_tensor_copy(S, a, oom))

(***************************************************************************)
(* Scalar operations.                                                      *)
(***************************************************************************)
\* for (i = 0; i < result->size; i++) result->data[i] += scalar;
add_scalar_loop(scalar, result) ==
  IF result.ret = NULL THEN result
  ELSE WithData(result,
         [i \in 1..Len(Buf(result)) |->
            IF i <= result.mem[result.ret].size
              THEN FAdd(Buf(result)[i], scalar)
              ELSE Buf(result)[i]])

cortex_tensor_add_scalar(S, tensor, scalar, oom) ==
  IF tensor = NULL THEN Failed(S, "Cannot add scalar to NULL tensor")
  ELSE add_scalar_loop(scalar, cortex_tensor_copy(S, tensor, oom))

\* for (i = 0; i < result->size; i++) result->data[i] *= scalar;
multiply_scalar_loop(scalar, result) ==
  IF result.ret = NULL THEN result
  ELSE WithData(result,
         [i \in 1..Len(Buf(result)) |->
            IF i <= result.mem[result.ret].size
              THEN FMul(Buf(result)[i], scalar)
              ELSE Buf(result)[i]])

cortex_tensor_multiply_scalar(S, tensor, scalar, oom) ==
  IF tensor = NULL THEN Failed(S, "Cannot multiply NULL tensor by scalar")
  ELSE multiply_scalar_loop(scalar, cortex_tensor_copy(S, tensor, oom))

(***************************************************************************)
(* Matrix operations.  C indices are 0-based, sequences 1-based.           *)
(***************************************************************************)
\* a faulty variant: the loop starts at k = 1
RECURSIVE dot_sum_from_one(_, _, _, _, _, _, _)
dot_sum_from_one(ad, bd, acols, bcols, i, j, n) ==
  IF n <= 1 THEN Q(0)
  ELSE FAdd(dot_sum_from_one(ad, bd, acols, bcols, i, j, n - 1),
            FMul(ad[i * acols + (n - 1) + 1], bd[(n - 1) * bcols + j + 1]))

\* sum = 0.0; for (k = 0; k < n; k++) sum += ad[i * acols + k] * bd[k * bcols + j]
RECURSIVE DotSum(_, _, _, _, _, _, _)
DotSum(ad, bd, acols, bcols, i, j, n) ==
  IF n <= 0 THEN Q(0)
  ELSE FAdd(DotSum(ad, bd, acols, bcols, i, j, n - 1),
            FMul(ad[i * acols + (n - 1) + 1], bd[(n - 1) * bcols + j + 1]))

\* the (i, j) of the loops that writes buffer position p (1-based) through
\* the index i * cols + j, for i < rows and j < cols
Writer(rows, cols, p) ==
  CHOOSE ij \in (0..(rows - 1)) \X (0..(cols - 1)) : ij[1] * cols + ij[2] + 1 = p

\* for i < a->shape[0], j < b->shape[1]:
\*   result->data[i * result->shape[1] + j] = sum over k < a->shape[1]
matmul_loop(ad, bd, as, bs, result) ==
  IF result.ret = NULL THEN result
  ELSE WithData(result,
         [p \in 1..Len(Buf(result)) |->
            IF \E i \in 0..(as[1] - 1), j \in 0..(bs[2] - 1) :
                 i * ShapeOf(result.mem, result.ret)[2] + j + 1 = p
              THEN DotSum(ad, bd, as[2], bs[2],
                          Writer(as[1], ShapeOf(result.mem, result.ret)[2], p)[1],
                          Writer(as[1], ShapeOf(result.mem, result.ret)[2], p)[2],
                          as[2])
              ELSE Buf(result)[p]])

cortex_tensor_matmul(S, a, b, oom) ==
  IF a = NULL \/ b = NULL THEN Failed(S, "Cannot multiply NULL tensors")
  ELSE IF S.mem[a].ndim # 2 \/ S.mem[b].ndim # 2
    THEN Failed(S, "Matrix multiplication requires 2D tensors")
  ELSE IF ShapeOf(S.mem, a)[2] # ShapeOf(S.mem, b)[1]
    THEN Failed(S, "Matrix dimension mismatch for multiplication")
  ELSE matmul_loop(DataOf(S.mem, a), DataOf(S.mem, b), ShapeOf(S.mem, a),
                   ShapeOf(S.mem, b),
                   cortex_tensor_create(
                     S, [null |-> FALSE,
                         shape |-> <<ShapeOf(S.mem, a)[1], ShapeOf(S.mem, b)[2]>>,
                         ndim |-> 2], oom))

\* the (i, j) of the loops that writes buffer position p (1-based) through
\* the index j * cols + i, for i < rows and j < n
TransposedWriter(rows, n, cols, p) ==
  CHOOSE ij \in (0..(rows - 1)) \X (0..(n - 1)) : ij[2] * cols + ij[1] + 1 = p

\* a faulty variant: the elements are copied in the operand's order
transpose_flat(td, ts, result) ==
  IF result.ret = NULL THEN result ELSE WithData(result, td)

\* for i < tensor->shape[0], j < tensor->shape[1]:
\*   result->data[j * result->shape[1] + i] = tensor->data[i * tensor->shape[1] + j]
transpose_loop(td, ts, result) ==
  IF result.ret = NULL THEN result
  ELSE WithData(result,
         [p \in 1..Len(Buf(result)) |->
            IF \E i \in 0..(ts[1] - 1), j \in 0..(ts[2] - 1) :
                 j * ShapeOf(result.mem, result.ret)[2] + i + 1 = p
              THEN td[TransposedWriter(ts[1], ts[2],
                                       ShapeOf(result.mem, result.ret)[2], p)[1] * ts[2]
                      + TransposedWriter(ts[1], ts[2],
                                         ShapeOf(result.mem, result.ret)[2], p)[2] + 1]
              ELSE Buf(result)[p]])

cortex_tensor_transpose(S, tensor, oom) ==
  IF tensor = NULL THEN Failed(S, "Cannot transpose NULL tensor")
  ELSE IF S.mem[tensor].ndim # 2 THEN Failed(S, "Transpose requires 2D tensor")
  ELSE transpose_loop(DataOf(S.mem, tensor), ShapeOf(S.mem, tensor),
                      cortex_tensor_create(
                        S, [null |-> FALSE,
                            shape |-> <<ShapeOf(S.mem, tensor)[2],
                                        ShapeOf(S.mem, tensor)[1]>>,
                            ndim |-> 2], oom))

(***************************************************************************)
(* Mathematical functions.  log and sqrt stop at the first element outside *)
(* their domain; the elements before it have been overwritten by then, and *)
(* each element is tested before it is overwritten.                        *)
(***************************************************************************)
\* for (i = 0; i < result->size; i++) result->data[i] = exp(result->data[i]);
exp_loop(result) ==
  IF result.ret = NULL THEN result
  ELSE WithData(result,
         [i \in 1..Len(Buf(result)) |->
            IF i <= result.mem[result.ret].size
              THEN FExp(Buf(result)[i])
              ELSE Buf(result)[i]])

cortex_tensor_exp(S, tensor, oom) ==
  IF tensor = NULL THEN Failed(S, "Cannot compute exp of NULL tensor")
  ELSE exp_loop(cortex_tensor_copy(S, tensor, oom))

\* for (i = 0; i < result->size; i++) { if (result->data[i] <= 0.0) fail; result->data[i] = log(result->data[i]); }
log_loop(result) ==
  IF result.ret = NULL THEN result
  ELSE IF \E i \in 1..result.mem[result.ret].size : FLe(Buf(result)[i], Q(0))
    THEN Discard(result, "Log of non-positive number")
  ELSE WithData(result,
         [i \in 1..Len(Buf(result)) |->
            IF i <= result.mem[result.ret].size
              THEN FLog(Buf(result)[i])
              ELSE Buf(result)[i]])

cortex_tensor_log(S, tensor, oom) ==
  IF tensor = NULL THEN Failed(S, "Cannot compute log of NULL tensor")
  ELSE log_loop(cortex_tensor_copy(S, tensor, oom))

\* for (i = 0; i < result->size; i++) { if (result->data[i] < 0.0) fail; result->data[i] = sqrt(result->data[i]); }
sqrt_loop(result) ==
  IF result.ret = NULL THEN result
  ELSE IF \E i \in 1..result.mem[result.ret].size : FLess(Buf(result)[i], Q(0))
    THEN Discard(result, "Sqrt of negative number")
  ELSE WithData(result,
         [i \in 1..Len(Buf(result)) |->
            IF i <= result.mem[result.ret].size
              THEN FSqrt(Buf(result)[i])
              ELSE Buf(result)[i]])

cortex_tensor_sqrt(S, tensor, oom) ==
  IF tensor = NULL THEN Failed(S, "Cannot compute sqrt of NULL tensor")
  ELSE sqrt_loop(cortex_tensor_copy(S, tensor, oom))

(***************************************************************************)
(* Activation functions.                                                   *)
(***************************************************************************)
\* a faulty variant: the operand's buffer is overwritten and the operand
\* returned
relu_in_place(S, tensor, oom) ==
  IF tensor = NULL THEN Failed(S, "Cannot compute ReLU of NULL tensor")
  ELSE [mem |-> [S.mem EXCEPT
                   ![S.mem[tensor].data].elems =
                      [i \in 1..Len(@) |-> FMax(Q(0), @[i])]],
        err |-> S.err, ret |-> tensor, af |-> 0, oob |-> FALSE, allocs |-> 0]

\* for (i = 0; i < result->size; i++) result->data[i] = fmax(0.0, result->data[i]);
relu_loop(result) ==
  IF result.ret = NULL THEN result
  ELSE WithData(result,
         [i \in 1..Len(Buf(result)) |->
            IF i <= result.mem[result.ret].size
              THEN FMax(Q(0), Buf(result)[i])
              ELSE Buf(result)[i]])

cortex_tensor_relu(S, tensor, oom) ==
  IF tensor = NULL THEN Failed(S, "Cannot compute ReLU of NULL tensor")
  ELSE relu_loop(cortex_tensor_copy(S, tensor, oom))

\* for (i = 0; i < result->size; i++) result->data[i] = 1.0 / (1.0 + exp(-result->data[i]));
sigmoid_loop(result) ==
  IF result.ret = NULL THEN result
  ELSE WithData(result,
         [i \in 1..Len(Buf(result)) |->
            IF i <= result.mem[result.ret].size
              THEN FDiv(Q(1), FAdd(Q(1), FExp(FNeg(Buf(result)[i]))))
              ELSE Buf(result)[i]])

cortex_tensor_sigmoid(S, tensor, oom) ==
  IF tensor = NULL THEN Failed(S, "Cannot compute sigmoid of NULL tensor")
  ELSE sigmoid_loop(cortex_tensor_copy(S, tensor, oom))

\* for (i = 0; i < result->size; i++) result->data[i] = tanh(result->data[i]);
tanh_loop(result) ==
  IF result.ret = NULL THEN result
  ELSE WithData(result,
         [i \in 1..Len(Buf(result)) |->
            IF i <= result.mem[result.ret].size
              THEN FTanh(Buf(result)[i])
              ELSE Buf(result)[i]])

cortex_tensor_tanh(S, tensor, oom) ==
  IF tensor = NULL THEN Failed(S, "Cannot compute tanh of NULL tensor")
  ELSE tanh_loop(cortex_tensor_copy(S, tensor, oom))

\* m = d[0]; for (i = 1; i < n; i++) if (d[i] > m) m = d[i];   (n >= 1)
RECURSIVE ScanMax(_, _)
ScanMax(d, n) ==
  IF n <= 1 THEN d[1]
  ELSE IF FLess(ScanMax(d, n - 1), d[n]) THEN d[n] ELSE ScanMax(d, n - 1)

\* m = d[0]; for (i = 1; i < n; i++) if (d[i] < m) m = d[i];   (n >= 1)
RECURSIVE ScanMin(_, _)
ScanMin(d, n) ==
  IF n <= 1 THEN d[1]
  ELSE IF FLess(d[n], ScanMin(d, n - 1)) THEN d[n] ELSE ScanMin(d, n - 1)

\* sum = 0.0; for (i = 0; i < n; i++) sum += d[i];
RECURSIVE SumSeq(_, _)
SumSeq(d, n) == IF n <= 0 THEN Q(0) ELSE FAdd(SumSeq(d, n - 1), d[n])

\* for (i = 0; i < n; i++) d[i] = exp(d[i] - max_val);
softmax_exp(d, n, max_val) ==
  [i \in 1..Len(d) |-> IF i <= n THEN FExp(FSub(d[i], max_val)) ELSE d[i]]

\* for (i = 0; i < n; i++) d[i] /= sum;
softmax_normalize(e, n, sum) ==
  [i \in 1..Len(e) |-> IF i <= n THEN FDiv(e[i], sum) ELSE e[i]]

\* max_val = result->data[0], read before result->size is looked at: with no
\* element the read is outside the buffer and yields a value that is not used
softmax_max(d, n) == IF Len(d) >= 1 THEN ScanMax(d, n) ELSE Untracked

softmax_loops(result, d, n) ==
  [WithData(result,
            softmax_normalize(softmax_exp(d, n, softmax_max(d, n)), n,
                              SumSeq(softmax_exp(d, n, softmax_max(d, n)), n)))
     EXCEPT !.oob = Len(d) < 1]

softmax_result(result) ==
  IF result.ret = NULL THEN result
  ELSE softmax_loops(result, Buf(result), result.mem[result.ret].size)

cortex_tensor_softmax(S, tensor, oom) ==
  IF tensor = NULL THEN Failed(S, "Cannot compute softmax of NULL tensor")
  ELSE softmax_result(cortex_tensor_copy(S, tensor, oom))

(***************************************************************************)
(* Statistical functions and loss functions.  An entry point that returns  *)
(* a number yields [mem, err, val, ok, oob]: val the number returned, ok   *)
(* FALSE when the call took an error return (the C function returns 0.0    *)
(* there, which the caller cannot tell from a result).                     *)
(***************************************************************************)
FailedScalar(S, message) ==
  [mem |-> S.mem, err |-> cortex_set_error(S, message).err, val |-> Q(0),
   ok |-> FALSE, oob |-> FALSE]

cortex_tensor_sum(S, tensor) ==
  IF tensor = NULL THEN FailedScalar(S, "Cannot compute sum of NULL tensor")
  ELSE [mem |-> S.mem, err |-> S.err,
        val |-> SumSeq(DataOf(S.mem, tensor), S.mem[tensor].size),
        ok |-> TRUE, oob |-> FALSE]

\* return cortex_tensor_sum(tensor) / tensor->size;
mean_divide(size, sum) == [sum EXCEPT !.val = FDiv(sum.val, Q(size))]

cortex_tensor_mean(S, tensor) ==
  IF tensor = NULL THEN FailedScalar(S, "Cannot compute mean of NULL tensor")
  ELSE mean_divide(S.mem[tensor].size, cortex_tensor_sum(S, tensor))

\* sum_sq_diff = 0.0; for (i = 0; i < n; i++) { diff = d[i] - mean; sum_sq_diff += diff * diff; }
RECURSIVE SumSqDiff(_, _, _)
SumSqDiff(d, mean_val, n) ==
  IF n <= 0 THEN Q(0)
  ELSE FAdd(SumSqDiff(d, mean_val, n - 1),
            FMul(FSub(d[n], mean_val), FSub(d[n], mean_val)))

\* return sqrt(sum_sq_diff / tensor->size);
std_sqrt(d, size, mean) ==
  [mean EXCEPT !.val = FSqrt(FDiv(SumSqDiff(d, mean.val, size), Q(size)))]

cortex_tensor_std(S, tensor) ==
  IF tensor = NULL THEN FailedScalar(S, "Cannot compute std of NULL tensor")
  ELSE std_sqrt(DataOf(S.mem, tensor), S.mem[tensor].size, cortex_tensor_mean(S, tensor))

\* return std_val * std_val;
var_square(std) == [std EXCEPT !.val = FMul(std.val, std.val)]

cortex_tensor_var(S, tensor) ==
  IF tensor = NULL THEN FailedScalar(S, "Cannot compute variance of NULL tensor")
  ELSE var_square(cortex_tensor_std(S, tensor))

cortex_tensor_min(S, tensor) ==
  IF tensor = NULL \/ (tensor # NULL /\ S.mem[tensor].size = 0)
    THEN FailedScalar(S, "Cannot compute min of NULL or empty tensor")
  ELSE [mem |-> S.mem, err |-> S.err,
        val |-> ScanMin(DataOf(S.mem, tensor), S.mem[tensor].size),
        ok |-> TRUE, oob |-> Len(DataOf(S.mem, tensor)) < 1]

cortex_tensor_max(S, tensor) ==
  IF tensor = NULL \/ (tensor # NULL /\ S.mem[tensor].size = 0)
    THEN FailedScalar(S, "Cannot compute max of NULL or empty tensor")
  ELSE [mem |-> S.mem, err |-> S.err,
        val |-> ScanMax(DataOf(S.mem, tensor), S.mem[tensor].size),
        ok |-> TRUE, oob |-> Len(DataOf(S.mem, tensor)) < 1]

\* for (i = 0; i < n; i++) { diff = p[i] - t[i]; sum_sq_diff += diff * diff; }
RECURSIVE SumSqErr(_, _, _)
SumSqErr(p, t, n) ==
  IF n <= 0 THEN Q(0)
  ELSE FAdd(SumSqErr(p, t, n - 1), FMul(FSub(p[n], t[n]), FSub(p[n], t[n])))

cortex_mse_loss(S, predictions, targets) ==
  IF predictions = NULL \/ targets = NULL
    THEN FailedScalar(S, "Cannot compute MSE loss of NULL tensors")
  ELSE IF S.mem[predictions].size # S.mem[targets].size
    THEN FailedScalar(S, "Tensor size mismatch for MSE loss")
  ELSE [mem |-> S.mem, err |-> S.err,
        val |-> FDiv(SumSqErr(DataOf(S.mem, predictions), DataOf(S.mem, targets),
                              S.mem[predictions].size),
                     Q(S.mem[predictions].size)),
        ok |-> TRUE, oob |-> FALSE]

\* for (i = 0; i < n; i++) if (p[i] > 0.0) loss -= t[i] * log(p[i]);
RECURSIVE CrossEntropySum(_, _, _)
CrossEntropySum(p, t, n) ==
  IF n <= 0 THEN Q(0)
  ELSE IF FLess(Q(0), p[n])
    THEN FSub(CrossEntropySum(p, t, n - 1), FMul(t[n], FLog(p[n])))
    ELSE CrossEntropySum(p, t, n - 1)

cortex_cross_entropy_loss(S, predictions, targets) ==
  IF predictions = NULL \/ targets = NULL
    THEN FailedScalar(S, "Cannot compute cross-entropy loss of NULL tensors")
  ELSE IF S.mem[predictions].size # S.mem[targets].size
    THEN FailedScalar(S, "Tensor size mismatch for cross-entropy loss")
  ELSE [mem |-> S.mem, err |-> S.err,
        val |-> FDiv(CrossEntropySum(DataOf(S.mem, predictions), DataOf(S.mem, targets),
                                     S.mem[predictions].size),
                     Q(S.mem[predictions].size)),
        ok |-> TRUE, oob |-> FALSE]

\* the clamp bound 1e-8
Epsilon == Rat(1, 100000000)

\* p = fmax(1e-8, fmin(1.0 - 1e-8, p))
Clamp(p) == FMax(Epsilon, FMin(FSub(Q(1), Epsilon), p))

\* for (i = 0; i < n; i++) loss -= t * log(p) + (1.0 - t) * log(1.0 - p);
RECURSIVE BinaryCrossEntropySum(_, _, _)
BinaryCrossEntropySum(p, t, n) ==
  IF n <= 0 THEN Q(0)
  ELSE FSub(BinaryCrossEntropySum(p, t, n - 1),
            FAdd(FMul(t[n], FLog(Clamp(p[n]))),
                 FMul(FSub(Q(1), t[n]), FLog(FSub(Q(1), Clamp(p[n]))))))

cortex_binary_cross_entropy_loss(S, predictions, targets) ==
  IF predictions = NULL \/ targets = NULL
    THEN FailedScalar(S, "Cannot compute binary cross-entropy loss of NULL tensors")
  ELSE IF S.mem[predictions].size # S.mem[targets].size
    THEN FailedScalar(S, "Tensor size mismatch for binary cross-entropy loss")
  ELSE [mem |-> S.mem, err |-> S.err,
        val |-> FDiv(BinaryCrossEntropySum(DataOf(S.mem, predictions),
                                           DataOf(S.mem, targets),
                                           S.mem[predictions].size),
                     Q(S.mem[predictions].size)),
        ok |-> TRUE, oob |-> FALSE]

(***************************************************************************)
(* The client.                                                             *)
(***************************************************************************)
VARIABLES
  mem,              \* the heap: Addr -> block
  g_error_message,  \* the error slot
  last,             \* the engine call the client made last, and what it returned
  pc,               \* "call": about to make the engine call; "post": after it
  writes            \* stores the client has made into the copy it received

vars == <<mem, g_error_message, last, pc, writes>>

\* the machine state the next call starts from
Cur == [mem |-> mem, err |-> g_error_message]

\* the tensors the client holds: the live headers
Live(m) == {x \in Addr : m[x].kind = "tensor"}

\* the blocks in use
Allocated(m) == {x \in Addr : m[x].kind # "free"}

\* shapes the client builds tensors of and asks create for: one or two axes
Shapes == UNION {[1..r -> 0..MaxExtent] : r \in {1, 2}}

\* data the client fills a tensor with: start, start + step, ...
Patterns == {<<1, 0>>, <<-1, 1>>, <<2, -1>>}

Ramp(p, n) == [i \in 1..n |-> Q(p[1] + (i - 1) * p[2])]

NoArg == [null |-> TRUE, shape |-> <<>>, ndim |-> 0]

ShapeArg(s) == [null |-> FALSE, shape |-> s, ndim |-> Len(s)]

\* a tensor the client built earlier: created, filled, requires_grad set
build_fill(p, grad, t) ==
  St([WithData(t, Ramp(p, t.mem[t.ret].size)) EXCEPT
        !.mem[t.ret].requires_grad = grad])

Build(S, shape, p, grad) ==
  build_fill(p, grad, cortex_tensor_create(S, ShapeArg(shape), 0))

EmptyHeap == [mem |-> [x \in Addr |-> FreeBlock], err |-> NoMessage]

\* the client holds exactly the operands of the call it is about to make:
\* none, one (any requires_grad), or two (the first with requires_grad set,
\* the second without)
Heaps ==
  {EmptyHeap.mem}
  \cup {Build(EmptyHeap, s, p, g).mem : s \in Shapes, p \in Patterns, g \in BOOLEAN}
  \cup {Build(Build(EmptyHeap, s, p, TRUE), s2, p2, FALSE).mem :
          s \in Shapes, p \in Patterns, s2 \in Shapes, p2 \in Patterns}

\* what an earlier call may have left in the error slot
EarlierMessages == {NoMessage, "Cannot copy NULL tensor"}

NoCall ==
  [op |-> "none", a |-> NULL, b |-> NULL, arg |-> NoArg, scalar |-> Q(0),
   ok |-> TRUE, ret |-> NULL, other |-> NULL, val |-> Q(0), af |-> 0, oob |-> FALSE,
   allocs |-> 0]

Init ==
  /\ mem \in Heaps
  /\ g_error_message \in EarlierMessages
  /\ last = NoCall
  /\ pc = "call"
  /\ writes = 0

\* the first and second tensor the client holds (NULL: none)
First == IF Live(mem) = {} THEN NULL ELSE CHOOSE x \in Live(mem) : \A y \in Live(mem) : x <= y

Second ==
  IF Cardinality(Live(mem)) < 2 THEN NULL
  ELSE CHOOSE x \in Live(mem) : \A y \in Live(mem) : x >= y

\* operands of a call that takes no, one, two tensors
NoOperand == Live(mem) = {}

Operand1 == IF Live(mem) = {} THEN {NULL} ELSE IF Second = NULL THEN {First} ELSE {}

Operand2 ==
  IF Live(mem) = {} THEN {<<NULL, NULL>>}
  ELSE IF Second = NULL THEN {<<First, NULL>>, <<NULL, First>>, <<First, First>>}
  ELSE {<<First, Second>>}

\* the allocation the allocator refuses during the call (0: none)
Ooms == 0..3

\* shape arguments of create and the factories: the shapes, one with a
\* negative extent, a null pointer, and ndim 0 and -1
ShapeArgs ==
  {ShapeArg(s) : s \in Shapes}
  \cup {ShapeArg(<<-1>>), [null |-> TRUE, shape |-> <<>>, ndim |-> 1],
        [null |-> FALSE, shape |-> <<2>>, ndim |-> 0],
        [null |-> FALSE, shape |-> <<2>>, ndim |-> -1]}

Scalars == {Q(-1), Q(2)}

EyeSizes == -1..MaxExtent

\* start, stop, step
ArangeArgs == {<<0, 2, 1>>, <<1, 0, 1>>, <<0, 3, 2>>, <<2, 0, -1>>, <<0, 0, 1>>}

\* the call returned a tensor (or NULL)
Returned(op, a, b, arg, scalar, r) ==
  /\ mem' = r.mem
  /\ g_error_message' = r.err
  /\ last' = [op |-> op, a |-> a, b |-> b, arg |-> arg, scalar |-> scalar,
              ok |-> r.ret # NULL, ret |-> r.ret, other |-> NULL, val |-> Q(0),
              af |-> r.af, oob |-> r.oob, allocs |-> r.allocs]
  /\ pc' = "post"
  /\ writes' = 0

\* the call returned a number (no reduction or loss calls the allocator)
ReturnedScalar(op, a, b, r) ==
  /\ mem' = r.mem
  /\ g_error_message' = r.err
  /\ last' = [op |-> op, a |-> a, b |-> b, arg |-> NoArg, scalar |-> Q(0),
              ok |-> r.ok, ret |-> NULL, other |-> NULL, val |-> r.val, af |-> 0,
              oob |-> r.oob, allocs |-> 0]
  /\ pc' = "post"
  /\ writes' = 0

Create ==
  /\ pc = "call" /\ NoOperand
  /\ \E arg \in ShapeArgs, oom \in Ooms :
       Returned("cortex_tensor_create", NULL, NULL, arg, Q(0),
                cortex_tensor_create(Cur, arg, oom))

Copy ==
  /\ pc = "call"
  /\ \E t \in Operand1, oom \in Ooms :
       Returned("cortex_tensor_copy", t, NULL, NoArg, Q(0),
                cortex_tensor_copy(Cur, t, oom))

\* a call that returns nothing
ReturnedVoid(op, a, S) ==
  /\ mem' = S.mem
  /\ g_error_message' = S.err
  /\ last' = [NoCall EXCEPT !.op = op, !.a = a]
  /\ pc' = "post"
  /\ writes' = 0

Free ==
  /\ pc = "call"
  /\ \E t \in Operand1 : ReturnedVoid("cortex_tensor_free", t, cortex_tensor_free(Cur, t))

Zeros ==
  /\ pc = "call" /\ NoOperand
  /\ \E arg \in ShapeArgs, oom \in Ooms :
       Returned("cortex_zeros", NULL, NULL, arg, Q(0), cortex_zeros(Cur, arg, oom))

Ones ==
  /\ pc = "call" /\ NoOperand
  /\ \E arg \in ShapeArgs, oom \in Ooms :
       Returned("cortex_ones", NULL, NULL, arg, Q(0), cortex_ones(Cur, arg, oom))

Randn ==
  /\ pc = "call" /\ NoOperand
  /\ \E arg \in ShapeArgs, oom \in Ooms :
       Returned("cortex_randn", NULL, NULL, arg, Q(0), cortex_randn(Cur, arg, oom))

Eye ==
  /\ pc = "call" /\ NoOperand
  /\ \E size \in EyeSizes, oom \in Ooms :
       Returned("cortex_eye", NULL, NULL, ShapeArg(<<size, size>>), Q(0),
                cortex_eye(Cur, size, oom))

Arange ==
  /\ pc = "call" /\ NoOperand
  /\ \E r \in ArangeArgs, oom \in Ooms :
       Returned("cortex_arange", NULL, NULL, ShapeArg(r), Q(0),
                cortex_arange(Cur, Q(r[1]), Q(r[2]), Q(r[3]), oom))

Add ==
  /\ pc = "call"
  /\ \E ab \in Operand2, oom \in Ooms :
       Returned("cortex_tensor_add", ab[1], ab[2], NoArg, Q(0), cortex_tensor_add(Cur, ab[1], ab[2], oom))

Subtract ==
  /\ pc = "call"
  /\ \E ab \in Operand2, oom \in Ooms :
       Returned("cortex_tensor_subtract", ab[1], ab[2], NoArg, Q(0), cortex_tensor_subtract(Cur, ab[1], ab[2], oom))

Multiply ==
  /\ pc = "call"
  /\ \E ab \in Operand2, oom \in Ooms :
       Returned("cortex_tensor_multiply", ab[1], ab[2], NoArg, Q(0), cortex_tensor_multiply(Cur, ab[1], ab[2], oom))

Divide ==
  /\ pc = "call"
  /\ \E ab \in Operand2, oom \in Ooms :
       Returned("cortex_tensor_divide", ab[1], ab[2], NoArg, Q(0), cortex_tensor_divide(Cur, ab[1], ab[2], oom))

Power ==
  /\ pc = "call"
  /\ \E ab \in Operand2, oom \in Ooms :
       Returned("cortex_tensor_power", ab[1], ab[2], NoArg, Q(0), cortex_tensor_power(Cur, ab[1], ab[2], oom))

AddScalar ==
  /\ pc = "call"
  /\ \E t \in Operand1, scalar \in Scalars, oom \in Ooms :
       Returned("cortex_tensor_add_scalar", t, NULL, NoArg, scalar, cortex_tensor_add_scalar(Cur, t, scalar, oom))

MultiplyScalar ==
  /\ pc = "call"
  /\ \E t \in Operand1, scalar \in Scalars, oom \in Ooms :
       Returned("cortex_tensor_multiply_scalar", t, NULL, NoArg, scalar, cortex_tensor_multiply_scalar(Cur, t, scalar, oom))

Matmul ==
  /\ pc = "call"
  /\ \E ab \in Operand2, oom \in Ooms :
       Returned("cortex_tensor_matmul", ab[1], ab[2], NoArg, Q(0), cortex_tensor_matmul(Cur, ab[1], ab[2], oom))

Transpose ==
  /\ pc = "call"
  /\ \E t \in Operand1, oom \in Ooms :
       Returned("cortex_tensor_transpose", t, NULL, NoArg, Q(0), cortex_tensor_transpose(Cur, t, oom))

Exp ==
  /\ pc = "call"
  /\ \E t \in Operand1, oom \in Ooms :
       Returned("cortex_tensor_exp", t, NULL, NoArg, Q(0), cortex_tensor_exp(Cur, t, oom))

Log ==
  /\ pc = "call"
  /\ \E t \in Operand1, oom \in Ooms :
       Returned("cortex_tensor_log", t, NULL, NoArg, Q(0), cortex_tensor_log(Cur, t, oom))

Sqrt ==
  /\ pc = "call"
  /\ \E t \in Operand1, oom \in Ooms :
       Returned("cortex_tensor_sqrt", t, NULL, NoArg, Q(0), cortex_tensor_sqrt(Cur, t, oom))

Relu ==
  /\ pc = "call"
  /\ \E t \in Operand1, oom \in Ooms :
       Returned("cortex_tensor_relu", t, NULL, NoArg, Q(0), cortex_tensor_relu(Cur, t, oom))

Sigmoid ==
  /\ pc = "call"
  /\ \E t \in Operand1, oom \in Ooms :
       Returned("cortex_tensor_sigmoid", t, NULL, NoArg, Q(0), cortex_tensor_sigmoid(Cur, t, oom))

Tanh ==
  /\ pc = "call"
  /\ \E t \in Operand1, oom \in Ooms :
       Returned("cortex_tensor_tanh", t, NULL, NoArg, Q(0), cortex_tensor_tanh(Cur, t, oom))

Softmax ==
  /\ pc = "call"
  /\ \E t \in Operand1, oom \in Ooms :
       Returned("cortex_tensor_softmax", t, NULL, NoArg, Q(0), cortex_tensor_softmax(Cur, t, oom))

Mean ==
  /\ pc = "call"
  /\ \E t \in Operand1 : ReturnedScalar("cortex_tensor_mean", t, NULL, cortex_tensor_mean(Cur, t))

Std ==
  /\ pc = "call"
  /\ \E t \in Operand1 : ReturnedScalar("cortex_tensor_std", t, NULL, cortex_tensor_std(Cur, t))

Var ==
  /\ pc = "call"
  /\ \E t \in Operand1 : ReturnedScalar("cortex_tensor_var", t, NULL, cortex_tensor_var(Cur, t))

Min ==
  /\ pc = "call"
  /\ \E t \in Operand1 : ReturnedScalar("cortex_tensor_min", t, NULL, cortex_tensor_min(Cur, t))

Max ==
  /\ pc = "call"
  /\ \E t \in Operand1 : ReturnedScalar("cortex_tensor_max", t, NULL, cortex_tensor_max(Cur, t))

Sum ==
  /\ pc = "call"
  /\ \E t \in Operand1 : ReturnedScalar("cortex_tensor_sum", t, NULL, cortex_tensor_sum(Cur, t))

MseLoss ==
  /\ pc = "call"
  /\ \E ab \in Operand2 : ReturnedScalar("cortex_mse_loss", ab[1], ab[2], cortex_mse_loss(Cur, ab[1], ab[2]))

CrossEntropyLoss ==
  /\ pc = "call"
  /\ \E ab \in Operand2 : ReturnedScalar("cortex_cross_entropy_loss", ab[1], ab[2], cortex_cross_entropy_loss(Cur, ab[1], ab[2]))

BinaryCrossEntropyLoss ==
  /\ pc = "call"
  /\ \E ab \in Operand2 : ReturnedScalar("cortex_binary_cross_entropy_loss", ab[1], ab[2], cortex_binary_cross_entropy_loss(Cur, ab[1], ab[2]))

\* the client may clear the slot at any time, before or after its call
ClearError ==
  /\ g_error_message' = cortex_clear_error(Cur).err
  /\ mem' = cortex_clear_error(Cur).mem
  /\ UNCHANGED <<last, pc, writes>>

(***************************************************************************)
(* Two clients that chain calls.  Each holds what the chain needs (a       *)
(* matrix; two matrices whose inner extents agree), the allocator refuses  *)
(* nothing, and each intermediate tensor is released once it has been      *)
(* used.                                                                   *)
(***************************************************************************)
\* ... cortex_tensor_free(e); return r;
eye_release(e, r) ==
  [r EXCEPT !.mem = cortex_tensor_free(St(r), e).mem]

\* ... r = cortex_tensor_matmul(e, m);
eye_matmul(m, e) == eye_release(e.ret, cortex_tensor_matmul(St(e), e.ret, m, 0))

\* e = cortex_eye(m->shape[0]); ...
MatmulEye ==
  /\ pc = "call"
  /\ \E m \in Operand1 :
       /\ m # NULL /\ mem[m].ndim = 2
       /\ Returned("matmul(eye(n), m)", m, NULL, NoArg, Q(0),
                   eye_matmul(m, cortex_eye(Cur, ShapeOf(mem, m)[1], 0)))

\* ... cortex_tensor_free(ab); the client is left with t and p
products_release(p, ab, t) ==
  [mem |-> cortex_tensor_free(St(t), ab).mem, err |-> t.err, ret |-> t.ret,
   other |-> p]

\* ... t = cortex_tensor_transpose(ab);
products_transpose(p, ab) ==
  products_release(p, ab.ret, cortex_tensor_transpose(St(ab), ab.ret, 0))

\* ... cortex_tensor_free(tb); cortex_tensor_free(ta); ab = cortex_tensor_matmul(a, b);
products_matmul(a, b, tb, ta, p) ==
  products_transpose(p.ret,
    cortex_tensor_matmul(cortex_tensor_free(cortex_tensor_free(St(p), tb), ta), a, b, 0))

\* ... p = cortex_tensor_matmul(tb, ta);
products_of_transposes(a, b, tb, ta) ==
  products_matmul(a, b, tb, ta.ret, cortex_tensor_matmul(St(ta), tb, ta.ret, 0))

\* ... ta = cortex_tensor_transpose(a);
products_second(a, b, tb) ==
  products_of_transposes(a, b, tb.ret, cortex_tensor_transpose(St(tb), a, 0))

\* tb = cortex_tensor_transpose(b); ...
products(S, a, b) == products_second(a, b, cortex_tensor_transpose(S, b, 0))

\* the client computes p = matmul(transpose(b), transpose(a)) and
\* t = transpose(matmul(a, b))
TransposeProducts ==
  /\ pc = "call"
  /\ \E ab \in Operand2 :
       /\ ab[1] # NULL /\ ab[2] # NULL
       /\ mem[ab[1]].ndim = 2 /\ mem[ab[2]].ndim = 2
       /\ ShapeOf(mem, ab[1])[2] = ShapeOf(mem, ab[2])[1]
       /\ mem' = products(Cur, ab[1], ab[2]).mem
       /\ g_error_message' = products(Cur, ab[1], ab[2]).err
       /\ last' = [NoCall EXCEPT !.op = "transpose(matmul(a, b))",
                                 !.a = ab[1], !.b = ab[2],
                                 !.ret = products(Cur, ab[1], ab[2]).ret,
                                 !.other = products(Cur, ab[1], ab[2]).other]
       /\ pc' = "post"
       /\ writes' = 0

(***************************************************************************)
(* After the call.  The client owns the tensor it received: it may store   *)
(* into a copy's buffer, shape array and requires_grad, and it releases    *)
(* the tensor with cortex_tensor_free.                                     *)
(***************************************************************************)
\* values the client stores
StoreValues == {Q(7)}

StoreExtents == {5}

IsCopy == last.op = "cortex_tensor_copy" /\ last.ret # NULL

StoreData ==
  /\ pc = "post" /\ IsCopy /\ writes < MaxWrites
  /\ \E i \in 1..Len(DataOf(mem, last.ret)), v \in StoreValues :
       mem' = [mem EXCEPT ![mem[last.ret].data].elems[i] = v]
  /\ writes' = writes + 1
  /\ UNCHANGED <<g_error_message, last, pc>>

StoreShape ==
  /\ pc = "post" /\ IsCopy /\ writes < MaxWrites
  /\ \E i \in 1..Len(ShapeOf(mem, last.ret)), v \in StoreExtents :
       mem' = [mem EXCEPT ![mem[last.ret].shape].words[i] = v]
  /\ writes' = writes + 1
  /\ UNCHANGED <<g_error_message, last, pc>>

StoreRequiresGrad ==
  /\ pc = "post" /\ IsCopy /\ writes < MaxWrites
  /\ mem' = [mem EXCEPT ![last.ret].requires_grad = ~@]
  /\ writes' = writes + 1
  /\ UNCHANGED <<g_error_message, last, pc>>

Release ==
  /\ pc = "post" /\ last.ret # NULL
  /\ mem' = cortex_tensor_free(Cur, last.ret).mem
  /\ g_error_message' = cortex_tensor_free(Cur, last.ret).err
  /\ pc' = "released"
  /\ UNCHANGED <<last, writes>>

Next ==
  \/ Create
  \/ Free
  \/ Copy
  \/ Zeros
  \/ Ones
  \/ Randn
  \/ Eye
  \/ Arange
  \/ Add
  \/ Subtract
  \/ Multiply
  \/ Divide
  \/ Power
  \/ AddScalar
  \/ MultiplyScalar
  \/ Matmul
  \/ Transpose
  \/ Exp
  \/ Log
  \/ Sqrt
  \/ Relu
  \/ Sigmoid
  \/ Tanh
  \/ Softmax
  \/ Mean
  \/ Std
  \/ Var
  \/ Min
  \/ Max
  \/ Sum
  \/ MseLoss
  \/ CrossEntropyLoss
  \/ BinaryCrossEntropyLoss
  \/ ClearError
  \/ MatmulEye
  \/ TransposeProducts
  \/ StoreData
  \/ StoreShape
  \/ StoreRequiresGrad
  \/ Release

Spec == Init /\ [][Next]_vars

(***************************************************************************)
(* Observations.                                                           *)
(***************************************************************************)
\* what a client can read of a tensor: the fields and what they point to
Tensor(m, t) ==
  [ndim |-> m[t].ndim, size |-> m[t].size, requires_grad |-> m[t].requires_grad,
   shape |-> ShapeOf(m, t), data |-> DataOf(m, t)]

\* the blocks a tensor is made of
Storage(m, t) == {t, m[t].shape, m[t].data}

\* this step is the client's call of op
Called(op) == pc = "call" /\ pc' = "post" /\ last'.op = op

\* the messages each entry point reports
Reports(op) ==
  CASE op \in {"cortex_tensor_create", "cortex_zeros", "cortex_ones", "cortex_randn",
               "cortex_eye", "cortex_arange"} ->
         {"Invalid tensor shape", "Memory allocation failed"}
    [] op = "cortex_tensor_copy" ->
         {"Cannot copy NULL tensor", "Memory allocation failed"}
    [] op = "cortex_tensor_add" ->
         {"Cannot add NULL tensors", "Tensor size mismatch for addition",
          "Memory allocation failed"}
    [] op = "cortex_tensor_subtract" ->
         {"Cannot subtract NULL tensors", "Tensor size mismatch for subtraction",
          "Memory allocation failed"}
    [] op = "cortex_tensor_multiply" ->
         {"Cannot multiply NULL tensors", "Tensor size mismatch for multiplication",
          "Memory allocation failed"}
    [] op = "cortex_tensor_divide" ->
         {"Cannot divide NULL tensors", "Tensor size mismatch for division",
          "Division by zero", "Memory allocation failed"}
    [] op = "cortex_tensor_power" ->
         {"Cannot raise NULL tensors to power",
          "Tensor size mismatch for power operation", "Memory allocation failed"}
    [] op = "cortex_tensor_add_scalar" ->
         {"Cannot add scalar to NULL tensor", "Memory allocation failed"}
    [] op = "cortex_tensor_multiply_scalar" ->
         {"Cannot multiply NULL tensor by scalar", "Memory allocation failed"}
    [] op = "cortex_tensor_matmul" ->
         {"Cannot multiply NULL tensors", "Matrix multiplication requires 2D tensors",
          "Matrix dimension mismatch for multiplication", "Memory allocation failed"}
    [] op = "cortex_tensor_transpose" ->
         {"Cannot transpose NULL tensor", "Transpose requires 2D tensor",
          "Memory allocation failed"}
    [] op = "cortex_tensor_exp" ->
         {"Cannot compute exp of NULL tensor", "Memory allocation failed"}
    [] op = "cortex_tensor_log" ->
         {"Cannot compute log of NULL tensor", "Log of non-positive number",
          "Memory allocation failed"}
    [] op = "cortex_tensor_sqrt" ->
         {"Cannot compute sqrt of NULL tensor", "Sqrt of negative number",
          "Memory allocation failed"}
    [] op = "cortex_tensor_relu" ->
         {"Cannot compute ReLU of NULL tensor", "Memory allocation failed"}
    [] op = "cortex_tensor_sigmoid" ->
         {"Cannot compute sigmoid of NULL tensor", "Memory allocation failed"}
    [] op = "cortex_tensor_tanh" ->
         {"Cannot compute tanh of NULL tensor", "Memory allocation failed"}
    [] op = "cortex_tensor_softmax" ->
         {"Cannot compute softmax of NULL tensor", "Memory allocation failed"}
    [] op = "cortex_tensor_mean" -> {"Cannot compute mean of NULL tensor"}
    [] op = "cortex_tensor_std" -> {"Cannot compute std of NULL tensor"}
    [] op = "cortex_tensor_var" -> {"Cannot compute variance of NULL tensor"}
    [] op = "cortex_tensor_min" -> {"Cannot compute min of NULL or empty tensor"}
    [] op = "cortex_tensor_max" -> {"Cannot compute max of NULL or empty tensor"}
    [] op = "cortex_tensor_sum" -> {"Cannot compute sum of NULL tensor"}
    [] op = "cortex_mse_loss" ->
         {"Cannot compute MSE loss of NULL tensors", "Tensor size mismatch for MSE loss"}
    [] op = "cortex_cross_entropy_loss" ->
         {"Cannot compute cross-entropy loss of NULL tensors",
          "Tensor size mismatch for cross-entropy loss"}
    [] op = "cortex_binary_cross_entropy_loss" ->
         {"Cannot compute binary cross-entropy loss of NULL tensors",
          "Tensor size mismatch for binary cross-entropy loss"}
    [] OTHER -> {}

(***************************************************************************)
(* The error slot.                                                         *)
(***************************************************************************)
\* C1: a call that fails leaves one of its own messages in the error slot,
\* whatever the slot held; a call that succeeds, and every other step of the
\* client but cortex_clear_error, leaves the slot as it was; and
\* cortex_clear_error empties it.  So cortex_get_error returns the message
\* of the most recent failure since the last clear, or nothing.
C1_ErrorSlot ==
  [][IF pc = "call" /\ pc' = "post" /\ ~last'.ok
       THEN g_error_message' \in Reports(last'.op)
            /\ cortex_get_error([mem |-> mem', err |-> g_error_message'])
                 = g_error_message'
       ELSE IF ClearError THEN g_error_message' = NoMessage
       ELSE g_error_message' = g_error_message]_vars

\* an addition of two tensors of different sizes has failed after an earlier
\* failure of another entry point, and the slot holds the addition's message
C1_Witness ==
  /\ pc = "post" /\ last.op = "cortex_tensor_add" /\ ~last.ok
  /\ last.a # NULL /\ last.b # NULL
  /\ g_error_message = "Tensor size mismatch for addition"

(***************************************************************************)
(* Reductions.                                                             *)
(***************************************************************************)
Reductions ==
  {"cortex_tensor_sum", "cortex_tensor_mean", "cortex_tensor_std",
   "cortex_tensor_var", "cortex_tensor_min", "cortex_tensor_max"}

\* C2: a reduction of an absent tensor or of a tensor of size 0 fails: it
\* takes its error return (0.0) and leaves its message in the error slot.
C2_ReductionsRejectEmpty ==
  [][\A op \in Reductions :
       Called(op) /\ (last'.a = NULL \/ mem[last'.a].size = 0)
         => /\ ~last'.ok
            /\ last'.val = Q(0)
            /\ g_error_message' \in Reports(op)]_vars

\* C2, what the code does: an absent tensor is rejected by all six, a tensor
\* of size 0 by min and max only; sum returns 0.0, mean, std and var divide
\* by the size and return NaN, and none of the four touches the error slot.
C2_ReductionsAsCoded ==
  [][\A op \in Reductions :
       Called(op) =>
         IF last'.a = NULL
              \/ (op \in {"cortex_tensor_min", "cortex_tensor_max"}
                  /\ mem[last'.a].size = 0)
           THEN ~last'.ok /\ last'.val = Q(0) /\ g_error_message' \in Reports(op)
           ELSE /\ last'.ok /\ g_error_message' = g_error_message
                /\ mem[last'.a].size = 0 =>
                     IF op = "cortex_tensor_sum" THEN last'.val = Q(0)
                     ELSE IsNaN(last'.val)]_vars

\* the mean of a tensor of size 0 has been taken: NaN, and no error
C2_Witness ==
  /\ pc = "post" /\ last.op = "cortex_tensor_mean" /\ last.a # NULL
  /\ mem[last.a].size = 0 /\ last.ok /\ IsNaN(last.val)
  /\ g_error_message = NoMessage

(***************************************************************************)
(* Creation.                                                               *)
(***************************************************************************)
\* C3: create with a null shape or ndim <= 0 returns no tensor and records
\* "Invalid tensor shape".  With a shape of ndim > 0 extents, none negative,
\* it returns a tensor unless the allocator refuses one of its requests; the
\* tensor has ndim axes, its shape is a block of its own holding the
\* argument's extents, its size is their product, and its buffer is a block
\* of its own holding exactly size elements, each 0.
C3_Create ==
  [][Called("cortex_tensor_create") =>
       IF last'.arg.null \/ last'.arg.ndim <= 0
         THEN /\ last'.ret = NULL
              /\ g_error_message' = "Invalid tensor shape"
         ELSE (\A i \in 1..last'.arg.ndim : last'.arg.shape[i] >= 0) =>
                IF last'.ret = NULL
                  THEN last'.af \in 1..3
                       /\ g_error_message' = "Memory allocation failed"
                  ELSE /\ last'.af = 0
                       /\ mem'[last'.ret].ndim = last'.arg.ndim
                       /\ mem'[last'.ret].size
                            = Product(SubSeq(last'.arg.shape, 1, last'.arg.ndim))
                       /\ mem'[mem'[last'.ret].shape].kind = "shape"
                       /\ mem'[mem'[last'.ret].data].kind = "data"
                       /\ Cardinality(Storage(mem', last'.ret)) = 3
                       /\ Storage(mem', last'.ret) \cap Allocated(mem) = {}
                       /\ ShapeOf(mem', last'.ret)
                            = SubSeq(last'.arg.shape, 1, last'.arg.ndim)
                       /\ Len(DataOf(mem', last'.ret)) = mem'[last'.ret].size
                       /\ \A i \in 1..mem'[last'.ret].size :
                            DataOf(mem', last'.ret)[i] = Q(0)]_vars

\* create has returned a tensor of shape [2, 2]: four zeros
C3_Witness ==
  /\ pc = "post" /\ last.op = "cortex_tensor_create" /\ last.ret # NULL
  /\ ShapeOf(mem, last.ret) = <<2, 2>>
  /\ mem[last.ret].size = 4
  /\ DataOf(mem, last.ret) = <<Q(0), Q(0), Q(0), Q(0)>>

\* create has returned a tensor with an extent of 0: no element
C3_WitnessEmpty ==
  /\ pc = "post" /\ last.op = "cortex_tensor_create" /\ last.ret # NULL
  /\ ShapeOf(mem, last.ret) = <<2, 0>>
  /\ mem[last.ret].size = 0
  /\ DataOf(mem, last.ret) = <<>>

(***************************************************************************)
(* Copies.                                                                 *)
(***************************************************************************)
\* C4: copy of a tensor returns (unless the allocator refuses a request) a
\* tensor with the source's ndim, size, shape, data and requires_grad, made
\* of blocks of its own; the call, every store the client then makes into
\* the copy's buffer, shape or requires_grad, and releasing the copy, leave
\* the source's fields, shape and data as they were.  Copy of an absent
\* tensor returns no tensor and records "Cannot copy NULL tensor".
C4_Copy ==
  [][/\ Called("cortex_tensor_copy") =>
          IF last'.a = NULL
            THEN /\ last'.ret = NULL
                 /\ g_error_message' = "Cannot copy NULL tensor"
            ELSE /\ mem'[last'.a] = mem[last'.a]
                 /\ Tensor(mem', last'.a) = Tensor(mem, last'.a)
                 /\ IF last'.ret = NULL
                      THEN last'.af \in 1..3
                      ELSE /\ Tensor(mem', last'.ret) = Tensor(mem, last'.a)
                           /\ Cardinality(Storage(mem', last'.ret)) = 3
                           /\ Storage(mem', last'.ret) \cap Allocated(mem) = {}
     /\ (pc = "post" /\ last.op = "cortex_tensor_copy" /\ last.ret # NULL) =>
          /\ mem'[last.a] = mem[last.a]
          /\ Tensor(mem', last.a) = Tensor(mem, last.a)]_vars

\* the client has stored twice into a copy of a tensor of two or more
\* elements, and the copy's data now differ from the source's
C4_Witness ==
  /\ pc = "post" /\ last.op = "cortex_tensor_copy" /\ last.ret # NULL
  /\ writes = 2
  /\ mem[last.a].size >= 2
  /\ DataOf(mem, last.ret) # DataOf(mem, last.a)

(***************************************************************************)
(* Elementwise binary operations.                                          *)
(***************************************************************************)
Binary ==
  {"cortex_tensor_add", "cortex_tensor_subtract", "cortex_tensor_multiply",
   "cortex_tensor_divide", "cortex_tensor_power"}

\* a[i] op b[i]
Elementwise(op, x, y) ==
  CASE op = "cortex_tensor_add" -> FAdd(x, y)
    [] op = "cortex_tensor_subtract" -> FSub(x, y)
    [] op = "cortex_tensor_multiply" -> FMul(x, y)
    [] op = "cortex_tensor_divide" -> FDiv(x, y)
    [] op = "cortex_tensor_power" -> FPow(x, y)

NullOperand(op) ==
  CASE op = "cortex_tensor_add" -> "Cannot add NULL tensors"
    [] op = "cortex_tensor_subtract" -> "Cannot subtract NULL tensors"
    [] op = "cortex_tensor_multiply" -> "Cannot multiply NULL tensors"
    [] op = "cortex_tensor_divide" -> "Cannot divide NULL tensors"
    [] op = "cortex_tensor_power" -> "Cannot raise NULL tensors to power"

ShapeMismatch(op) ==
  CASE op = "cortex_tensor_add" -> "Tensor size mismatch for addition"
    [] op = "cortex_tensor_subtract" -> "Tensor size mismatch for subtraction"
    [] op = "cortex_tensor_multiply" -> "Tensor size mismatch for multiplication"
    [] op = "cortex_tensor_divide" -> "Tensor size mismatch for division"
    [] op = "cortex_tensor_power" -> "Tensor size mismatch for power operation"

\* some element of t is 0
HasZero(m, t) == \E i \in 1..m[t].size : DataOf(m, t)[i] = Q(0)

\* C5: for a and b of equal size, when the allocator refuses nothing:
\* divide returns no tensor and records "Division by zero" exactly when
\* some element of b is 0, and then the heap is as it was before the call
\* (the result is released, a and b are as they were); otherwise it returns
\* a tensor of blocks of its own with result[i] = a[i] / b[i] for every i.
C5_Divide ==
  [][(/\ Called("cortex_tensor_divide")
      /\ last'.a # NULL /\ last'.b # NULL
      /\ mem[last'.a].size = mem[last'.b].size
      /\ last'.af = 0) =>
       /\ HasZero(mem, last'.b) <=>
            (last'.ret = NULL /\ g_error_message' = "Division by zero")
       /\ last'.ret = NULL => mem' = mem
       /\ last'.ret # NULL =>
            /\ Storage(mem', last'.ret) \cap Allocated(mem) = {}
            /\ g_error_message' = g_error_message
            /\ Len(DataOf(mem', last'.ret)) = mem[last'.a].size
            /\ \A i \in 1..mem[last'.a].size :
                 DataOf(mem', last'.ret)[i]
                   = FDiv(DataOf(mem, last'.a)[i], DataOf(mem, last'.b)[i])]_vars

\* a division by a tensor with a zero element has failed, whatever the slot
\* held, and the client holds the two operands and nothing else
C5_Witness ==
  /\ pc = "post" /\ last.op = "cortex_tensor_divide" /\ last.ret = NULL
  /\ last.a # NULL /\ last.b # NULL /\ last.a # last.b
  /\ HasZero(mem, last.b)
  /\ g_error_message = "Division by zero"
  /\ Allocated(mem) = Storage(mem, last.a) \cup Storage(mem, last.b)

\* C6: each of add, subtract, multiply, divide and power returns no tensor
\* and records its null-operand message when an operand is absent; else
\* returns no tensor and records its mismatch message exactly when the
\* operands' sizes differ; and else (whatever the operands' shapes) either
\* fails for another reason (a refused allocation, a zero divisor) or
\* returns a tensor with a's ndim and shape whose element i is a[i] op b[i].
C6_Binary ==
  [][\A op \in Binary :
       Called(op) =>
         IF last'.a = NULL \/ last'.b = NULL
           THEN last'.ret = NULL /\ g_error_message' = NullOperand(op)
         ELSE IF mem[last'.a].size # mem[last'.b].size
           THEN last'.ret = NULL /\ g_error_message' = ShapeMismatch(op)
         ELSE IF last'.ret = NULL
           THEN /\ g_error_message' \in {"Memory allocation failed", "Division by zero"}
                /\ g_error_message' = "Division by zero" =>
                     op = "cortex_tensor_divide" /\ HasZero(mem, last'.b)
                /\ g_error_message' = "Memory allocation failed" => last'.af \in 1..3
         ELSE /\ mem'[last'.ret].ndim = mem[last'.a].ndim
              /\ mem'[last'.ret].size = mem[last'.a].size
              /\ ShapeOf(mem', last'.ret) = ShapeOf(mem, last'.a)
              /\ Len(DataOf(mem', last'.ret)) = mem[last'.a].size
              /\ \A i \in 1..mem[last'.a].size :
                   DataOf(mem', last'.ret)[i]
                     = Elementwise(op, DataOf(mem, last'.a)[i],
                                   DataOf(mem, last'.b)[i])]_vars

\* a [1, 2] tensor and a [2] tensor have been added: the sum is a [1, 2]
\* tensor
C6_Witness ==
  /\ pc = "post" /\ last.op = "cortex_tensor_add" /\ last.ret # NULL
  /\ ShapeOf(mem, last.a) = <<1, 2>>
  /\ ShapeOf(mem, last.b) = <<2>>
  /\ ShapeOf(mem, last.ret) = <<1, 2>>
  /\ DataOf(mem, last.ret) # DataOf(mem, last.a)

(***************************************************************************)
(* Operands are read only.                                                 *)
(***************************************************************************)
NonMutating ==
  Binary
  \cup {"cortex_tensor_add_scalar", "cortex_tensor_multiply_scalar",
        "cortex_tensor_matmul", "cortex_tensor_transpose", "cortex_tensor_exp",
        "cortex_tensor_log", "cortex_tensor_sqrt", "cortex_tensor_relu",
        "cortex_tensor_sigmoid", "cortex_tensor_tanh", "cortex_tensor_softmax"}
  \cup Reductions
  \cup {"cortex_mse_loss", "cortex_cross_entropy_loss",
        "cortex_binary_cross_entropy_loss"}

\* C7: whether it succeeds or fails, a call of an elementwise, scalar,
\* matrix, mathematical, activation, reduction or loss entry point leaves
\* every block the client held as it was, so each operand's ndim, size,
\* requires_grad, shape and data are unchanged; a tensor it returns is made
\* of three blocks that were free before the call.
C7_OperandsUnchanged ==
  [][\A op \in NonMutating :
       Called(op) =>
         /\ \A x \in Allocated(mem) : mem'[x] = mem[x]
         /\ \A t \in {last'.a, last'.b} \ {NULL} :
              Tensor(mem', t) = Tensor(mem, t)
         /\ last'.ret # NULL =>
              /\ Cardinality(Storage(mem', last'.ret)) = 3
              /\ Storage(mem', last'.ret) \cap Allocated(mem) = {}
              /\ \A t \in {last'.a, last'.b} \ {NULL} :
                   Storage(mem', last'.ret) \cap Storage(mem', t) = {}]_vars

\* softmax has returned a tensor whose data differ from its operand's
C7_Witness ==
  /\ pc = "post" /\ last.op = "cortex_tensor_softmax" /\ last.ret # NULL
  /\ last.a # NULL /\ mem[last.a].size >= 2
  /\ last.ret # last.a
  /\ DataOf(mem, last.ret) # DataOf(mem, last.a)

(***************************************************************************)
(* Matrices.  Entry (i, j) of a 2-D tensor, rows and columns counted from  *)
(* 0, is element i * shape[1] + j of its buffer.                           *)
(***************************************************************************)
Entry(m, t, i, j) == DataOf(m, t)[i * ShapeOf(m, t)[2] + j + 1]

Rows(m, t) == ShapeOf(m, t)[1]

Cols(m, t) == ShapeOf(m, t)[2]

\* a[i,0] * b[0,j] + ... + a[i,n-1] * b[n-1,j], added in this order from 0
RECURSIVE InnerProduct(_, _, _, _, _, _)
InnerProduct(m, a, b, i, j, n) ==
  IF n = 0 THEN Q(0)
  ELSE FAdd(InnerProduct(m, a, b, i, j, n - 1),
            FMul(Entry(m, a, i, n - 1), Entry(m, b, n - 1, j)))

\* C8: for tensors a and b, matmul returns no tensor and records "Matrix
\* multiplication requires 2D tensors" unless both have ndim 2; else returns
\* no tensor and records "Matrix dimension mismatch for multiplication"
\* unless a.shape[1] = b.shape[0]; else returns (unless the allocator
\* refuses a request) a 2-D tensor of shape [a.shape[0], b.shape[1]] whose
\* entry (i, j) is the sum over k < a.shape[1] of a[i,k] * b[k,j].  And for
\* a matrix m of n rows, matmul(eye(n), m) has m's shape and m's data.
C8_Matmul ==
  [][/\ (Called("cortex_tensor_matmul") /\ last'.a # NULL /\ last'.b # NULL) =>
          IF mem[last'.a].ndim # 2 \/ mem[last'.b].ndim # 2
            THEN /\ last'.ret = NULL
                 /\ g_error_message' = "Matrix multiplication requires 2D tensors"
          ELSE IF Cols(mem, last'.a) # Rows(mem, last'.b)
            THEN /\ last'.ret = NULL
                 /\ g_error_message' = "Matrix dimension mismatch for multiplication"
          ELSE IF last'.ret = NULL
            THEN last'.af \in 1..3 /\ g_error_message' = "Memory allocation failed"
          ELSE /\ mem'[last'.ret].ndim = 2
               /\ ShapeOf(mem', last'.ret) = <<Rows(mem, last'.a), Cols(mem, last'.b)>>
               /\ mem'[last'.ret].size = Rows(mem, last'.a) * Cols(mem, last'.b)
               /\ Len(DataOf(mem', last'.ret)) = mem'[last'.ret].size
               /\ \A i \in 0..(Rows(mem, last'.a) - 1), j \in 0..(Cols(mem, last'.b) - 1) :
                    Entry(mem', last'.ret, i, j)
                      = InnerProduct(mem, last'.a, last'.b, i, j, Cols(mem, last'.a))
     /\ Called("matmul(eye(n), m)") =>
          /\ last'.ret # NULL /\ last'.ret # last'.a
          /\ mem'[last'.ret].ndim = 2
          /\ ShapeOf(mem', last'.ret) = ShapeOf(mem, last'.a)
          /\ DataOf(mem', last'.ret) = DataOf(mem, last'.a)]_vars

\* a [1, 2] matrix and a [2, 2] matrix have been multiplied: the product is
\* a [1, 2] matrix, and not all of its entries are 0
C8_Witness ==
  /\ pc = "post" /\ last.op = "cortex_tensor_matmul" /\ last.ret # NULL
  /\ ShapeOf(mem, last.a) = <<1, 2>>
  /\ ShapeOf(mem, last.b) = <<2, 2>>
  /\ ShapeOf(mem, last.ret) = <<1, 2>>
  /\ \E i \in 1..2 : DataOf(mem, last.ret)[i] # Q(0)

\* the product of eye(2) and a [2, 2] matrix with four different entries
\* has been taken
C8_WitnessEye ==
  /\ pc = "post" /\ last.op = "matmul(eye(n), m)" /\ last.ret # NULL
  /\ ShapeOf(mem, last.a) = <<2, 2>>
  /\ Cardinality({DataOf(mem, last.a)[i] : i \in 1..4}) = 4
  /\ DataOf(mem, last.ret) = DataOf(mem, last.a)

\* C9: for a tensor t, transpose returns no tensor and records "Transpose
\* requires 2D tensor" unless t has ndim 2; else returns (unless the
\* allocator refuses a request) a 2-D tensor of shape [t.shape[1],
\* t.shape[0]] with result[j,i] = t[i,j] for all i < t.shape[0] and
\* j < t.shape[1].  And for 2-D a and b with a.shape[1] = b.shape[0],
\* transpose(matmul(a, b)) and matmul(transpose(b), transpose(a)) have the
\* same ndim, shape and data.
C9_Transpose ==
  [][/\ (Called("cortex_tensor_transpose") /\ last'.a # NULL) =>
          IF mem[last'.a].ndim # 2
            THEN /\ last'.ret = NULL
                 /\ g_error_message' = "Transpose requires 2D tensor"
          ELSE IF last'.ret = NULL
            THEN last'.af \in 1..3 /\ g_error_message' = "Memory allocation failed"
          ELSE /\ mem'[last'.ret].ndim = 2
               /\ ShapeOf(mem', last'.ret) = <<Cols(mem, last'.a), Rows(mem, last'.a)>>
               /\ mem'[last'.ret].size = mem[last'.a].size
               /\ Len(DataOf(mem', last'.ret)) = mem[last'.a].size
               /\ \A i \in 0..(Rows(mem, last'.a) - 1), j \in 0..(Cols(mem, last'.a) - 1) :
                    Entry(mem', last'.ret, j, i) = Entry(mem, last'.a, i, j)
     /\ Called("transpose(matmul(a, b))") =>
          /\ last'.ret # NULL /\ last'.other # NULL /\ last'.ret # last'.other
          /\ mem'[last'.ret].ndim = mem'[last'.other].ndim
          /\ mem'[last'.ret].size = mem'[last'.other].size
          /\ ShapeOf(mem', last'.ret) = <<Cols(mem, last'.b), Rows(mem, last'.a)>>
          /\ ShapeOf(mem', last'.ret) = ShapeOf(mem', last'.other)
          /\ DataOf(mem', last'.ret) = DataOf(mem', last'.other)]_vars

\* a [1, 2] matrix with two different entries has been transposed into a
\* [2, 1] matrix
C9_Witness ==
  /\ pc = "post" /\ last.op = "cortex_tensor_transpose" /\ last.ret # NULL
  /\ ShapeOf(mem, last.a) = <<1, 2>>
  /\ ShapeOf(mem, last.ret) = <<2, 1>>
  /\ DataOf(mem, last.a)[1] # DataOf(mem, last.a)[2]

\* both sides of the identity have been computed for a [2, 2] matrix a and
\* a [2, 1] matrix b whose product is not 0
C9_WitnessProducts ==
  /\ pc = "post" /\ last.op = "transpose(matmul(a, b))"
  /\ ShapeOf(mem, last.a) = <<2, 2>>
  /\ ShapeOf(mem, last.b) = <<2, 1>>
  /\ ShapeOf(mem, last.ret) = <<1, 2>>
  /\ DataOf(mem, last.ret)[1] # DataOf(mem, last.ret)[2]
  /\ DataOf(mem, last.ret) = DataOf(mem, last.other)

(***************************************************************************)
(* Failed calls leave nothing behind.                                      *)
(***************************************************************************)
\* the entry points that return a tensor
Producing ==
  {"cortex_tensor_create", "cortex_tensor_copy", "cortex_zeros", "cortex_ones",
   "cortex_randn", "cortex_eye", "cortex_arange"}
  \cup (NonMutating \ (Reductions
                       \cup {"cortex_mse_loss", "cortex_cross_entropy_loss",
                             "cortex_binary_cross_entropy_loss"}))

\* C10: when a call of an entry point that returns a tensor returns none
\* (create refused its header, its shape or its buffer; a call built on
\* create or copy refused the same; divide met a zero divisor, log a
\* non-positive element, sqrt a negative one, after the result was
\* allocated), the heap is as it was before the call: the blocks in use are
\* the same and hold the same.
C10_AllOrNothing ==
  [][\A op \in Producing :
       (Called(op) /\ last'.ret = NULL) =>
         /\ Allocated(mem') = Allocated(mem)
         /\ Live(mem') = Live(mem)
         /\ mem' = mem]_vars

\* log has met a non-positive element after it had copied its operand, and
\* the client holds the operand and nothing else
C10_Witness ==
  /\ pc = "post" /\ last.op = "cortex_tensor_log" /\ last.ret = NULL
  /\ last.a # NULL
  /\ g_error_message = "Log of non-positive number"
  /\ Allocated(mem) = Storage(mem, last.a)

\* create has been refused its buffer after it had its header and its shape,
\* and no block is in use
C10_WitnessCreate ==
  /\ pc = "post" /\ last.op = "cortex_tensor_create" /\ last.ret = NULL
  /\ last.af = 3
  /\ g_error_message = "Memory allocation failed"
  /\ Allocated(mem) = {}

(***************************************************************************)
(* Validation and allocation.                                              *)
(***************************************************************************)
\* the entry points that can fail
Fallible ==
  Producing \cup Reductions
  \cup {"cortex_mse_loss", "cortex_cross_entropy_loss",
        "cortex_binary_cross_entropy_loss"}

\* this step is a call of op that failed though the allocator refused it
\* nothing: it rejected its input
Rejected(op) == Called(op) /\ ~last'.ok /\ last'.af = 0

\* C11: an entry point that rejects its input has obtained no block from
\* the allocator by then, unless it is divide.
C11_ValidateBeforeAllocate ==
  [][\A op \in Fallible :
       Rejected(op) => last'.allocs = 0 \/ op = "cortex_tensor_divide"]_vars

\* C11, what the code does: divide, log and sqrt copy their operand (three
\* blocks) and test each element as they overwrite it; on a zero divisor, a
\* non-positive element, a negative element they record their message,
\* free the copy and return no tensor.  Every other rejection comes before
\* any allocation.
C11_ValidateBeforeAllocateAsCoded ==
  [][\A op \in Fallible :
       Rejected(op) =>
         IF last'.allocs = 0
           THEN g_error_message'
                  \notin {"Division by zero", "Log of non-positive number",
                          "Sqrt of negative number"}
           ELSE /\ last'.allocs = 3
                /\ mem' = mem
                /\ \/ op = "cortex_tensor_divide"
                      /\ g_error_message' = "Division by zero"
                   \/ op = "cortex_tensor_log"
                      /\ g_error_message' = "Log of non-positive number"
                   \/ op = "cortex_tensor_sqrt"
                      /\ g_error_message' = "Sqrt of negative number"]_vars

\* sqrt has met a negative element after it had obtained the three blocks
\* of its result
C11_Witness ==
  /\ pc = "post" /\ last.op = "cortex_tensor_sqrt" /\ last.ret = NULL
  /\ last.a # NULL /\ last.af = 0 /\ last.allocs = 3
  /\ g_error_message = "Sqrt of negative number"
  /\ \E i \in 1..mem[last.a].size : FLess(DataOf(mem, last.a)[i], Q(0))

(***************************************************************************)
(* Release.                                                                *)
(***************************************************************************)
\* the blocks of the tensors in ts (NULL: none)
StorageOf(m, ts) == UNION {Storage(m, t) : t \in ts \ {NULL}}

\* this step is the client's release of the tensor it received
Released == pc = "post" /\ pc' = "released"

\* C12: cortex_tensor_free of an absent tensor changes neither the heap nor
\* the error slot.  cortex_tensor_free of a tensor frees its header, its
\* shape and its buffer, and changes no other block and not the error slot.
\* After a call (or a chain of calls whose intermediate tensors the client
\* has released) the blocks in use are those of the operands and of the
\* tensors returned, and once the client has released what it received,
\* those of the tensors it still holds.  No step but a release frees a
\* block that was in use before it.
C12_Release ==
  [][/\ Called("cortex_tensor_free") =>
          /\ g_error_message' = g_error_message
          /\ IF last'.a = NULL
               THEN mem' = mem
               ELSE /\ Cardinality(Storage(mem, last'.a)) = 3
                    /\ Allocated(mem') = Allocated(mem) \ Storage(mem, last'.a)
                    /\ \A x \in Storage(mem, last'.a) : mem'[x] = FreeBlock
                    /\ \A x \in Addr \ Storage(mem, last'.a) : mem'[x] = mem[x]
     /\ Released =>
          /\ g_error_message' = g_error_message
          /\ Cardinality(Storage(mem, last.ret)) = 3
          /\ Allocated(mem') = Allocated(mem) \ Storage(mem, last.ret)
          /\ \A x \in Storage(mem, last.ret) : mem'[x] = FreeBlock
          /\ \A x \in Addr \ Storage(mem, last.ret) : mem'[x] = mem[x]
          /\ Allocated(mem') = StorageOf(mem', {last.a, last.b, last.other})
     /\ (pc = "call" /\ pc' = "post" /\ last'.op # "cortex_tensor_free") =>
          Allocated(mem')
            = StorageOf(mem', {last'.a, last'.b, last'.ret, last'.other})
     /\ ~(Called("cortex_tensor_free") \/ Released) =>
          \A x \in Allocated(mem) : mem'[x].kind = mem[x].kind]_vars

\* the client has added two tensors and released the sum: the blocks in use
\* are those of the two operands
C12_Witness ==
  /\ pc = "released" /\ last.op = "cortex_tensor_add" /\ last.ret # NULL
  /\ last.a # NULL /\ last.b # NULL /\ last.a # last.b
  /\ Cardinality(Allocated(mem)) = 6
  /\ Allocated(mem) = StorageOf(mem, {last.a, last.b})
  /\ mem[last.ret] = FreeBlock

\* the client has released the one tensor it held: no block is in use
C12_WitnessFree ==
  /\ pc = "post" /\ last.op = "cortex_tensor_free" /\ last.a # NULL
  /\ Allocated(mem) = {}

(***************************************************************************)
(* Buffer indices.                                                         *)
(***************************************************************************)
Activations ==
  {"cortex_tensor_relu", "cortex_tensor_sigmoid", "cortex_tensor_tanh",
   "cortex_tensor_softmax"}

\* C13: no call on tensors made by create from non-negative extents (an
\* extent of 0 included) reads or writes a buffer outside [0, size); softmax,
\* min and max do not read element 0 of a tensor of size 0; and an
\* activation of a present tensor returns a tensor (the allocator refusing
\* nothing).
C13_IndicesInBounds ==
  [][\A op \in Fallible :
       Called(op) =>
         /\ ~last'.oob
         /\ (op \in Activations /\ last'.a # NULL /\ last'.af = 0) =>
              last'.ret # NULL /\ g_error_message' = g_error_message]_vars

\* C13, what the code does: min and max reject a tensor of size 0 before
\* they read element 0; softmax reads element 0 of its copy before it looks
\* at the size, which is outside the buffer exactly when the operand has
\* size 0 (the value read is not used and a tensor of size 0 is returned).
\* The indices matmul and transpose compute lie inside the buffers they
\* index, and an activation of a present tensor returns a tensor unless the
\* allocator refuses a request.
C13_IndicesAsCoded ==
  [][\A op \in Fallible :
       Called(op) =>
         /\ last'.oob <=>
              /\ op = "cortex_tensor_softmax"
              /\ last'.ret # NULL
              /\ mem[last'.a].size = 0
         /\ (op \in {"cortex_tensor_min", "cortex_tensor_max"} /\ last'.a # NULL
             /\ mem[last'.a].size = 0) => ~last'.ok
         /\ (op \in Activations /\ last'.a # NULL /\ last'.af = 0) =>
              last'.ret # NULL /\ g_error_message' = g_error_message
         /\ (op = "cortex_tensor_matmul" /\ last'.ret # NULL) =>
              \A i \in 0..(Rows(mem, last'.a) - 1), j \in 0..(Cols(mem, last'.b) - 1),
                 k \in 0..(Cols(mem, last'.a) - 1) :
                /\ i * Cols(mem, last'.a) + k < Len(DataOf(mem, last'.a))
                /\ k * Cols(mem, last'.b) + j < Len(DataOf(mem, last'.b))
                /\ i * Cols(mem', last'.ret) + j < Len(DataOf(mem', last'.ret))
         /\ (op = "cortex_tensor_transpose" /\ last'.ret # NULL) =>
              \A i \in 0..(Rows(mem, last'.a) - 1), j \in 0..(Cols(mem, last'.a) - 1) :
                /\ i * Cols(mem, last'.a) + j < Len(DataOf(mem, last'.a))
                /\ j * Cols(mem', last'.ret) + i < Len(DataOf(mem', last'.ret))]_vars

\* softmax of a [2, 0] tensor has returned a tensor of no element after it
\* read element 0 of a buffer of no element
C13_Witness ==
  /\ pc = "post" /\ last.op = "cortex_tensor_softmax" /\ last.ret # NULL
  /\ last.a # NULL /\ ShapeOf(mem, last.a) = <<2, 0>>
  /\ mem[last.a].size = 0
  /\ DataOf(mem, last.ret) = <<>>
  /\ last.oob

====
